---- MODULE Spec2Model ----
(***************************************************************************)
(* KAM AI backend: the capture pipeline (POST /api/capture), the risk      *)
(* engine it calls, and the dashboard queries, over a PostgreSQL store in  *)
(* which every pool.query is its own auto-committed statement.             *)
(*                                                                         *)
(* Each await of a handler is one step: the store executes the statement   *)
(* and the handler's continuation runs up to its next await (or to its     *)
(* response).  Steps of different requests interleave freely.              *)
(***************************************************************************)
EXTENDS Integers, Sequences, FiniteSets, TLC

\* ---------------------------------------------------------------- bounds
\* Number of capture requests received in one behaviour.
MaxCaptures == 2
\* The clock counts whole days and runs over 0..MaxDay.
MaxDay == 1
\* Number of words of the longest text handed to the risk engine on its own.
MaxLen == 3

\* ------------------------------------------------------- program constants
\* const { days = 30 } = req.query
DefaultDays == 30
\* const { level, limit = 50, offset = 0 } = req.query
DefaultLimit == 50
DefaultOffset == 0

Orgs == {"org1", "org2"}
Tools == {"chatgpt"}

\* ------------------------------------------------------------ risk engine
\* A prompt text is a sequence of words; a word stands for a stretch of text
\* and is characterised by the patterns of RISK_PATTERNS that match it:
\*   "w"       plain text                                    (no pattern)
\*   "ssn"     123-45-6789                                   (ssn)
\*   "ssn2"    987-65-4321                                   (ssn)
\*   "phone"   555.123.4567                                  (phone)
\*   "keymail" api_key=abcdefghijklmnopqrst1234@corp.com     (email, api_key)
\*   "name"    Dr. John Smith                                (person_name)
Words == {"w", "ssn", "ssn2", "phone", "keymail", "name"}

\* Object.entries(RISK_PATTERNS): the keys in insertion order.
RISK_PATTERNS ==
  << "ssn", "credit_card", "email", "phone", "medical_record",
     "bank_account", "code_block", "api_key", "person_name" >>

\* RISK_PATTERNS[type].level
PatternLevel(type) ==
  CASE type = "ssn"            -> "critical"
    [] type = "credit_card"    -> "critical"
    [] type = "email"          -> "high"
    [] type = "phone"          -> "medium"
    [] type = "medical_record" -> "critical"
    [] type = "bank_account"   -> "critical"
    [] type = "code_block"     -> "medium"
    [] type = "api_key"        -> "high"
    [] type = "person_name"    -> "low"

\* RISK_PATTERNS[type].pattern tested on one word.
PatternMatches(type, word) ==
  CASE word = "w"       -> FALSE
    [] word = "ssn"     -> type = "ssn"
    [] word = "ssn2"    -> type = "ssn"
    [] word = "phone"   -> type = "phone"
    [] word = "keymail" -> type \in {"email", "api_key"}
    [] word = "name"    -> type = "person_name"

\* Mutant of TextMatch: the pattern lacks the g flag, only the first match
\* is returned.
TextMatchFirst(text, type) ==
  IF \E i \in 1..Len(text) : PatternMatches(type, text[i])
    THEN << text[CHOOSE i \in 1..Len(text) :
                   /\ PatternMatches(type, text[i])
                   /\ \A j \in 1..(i - 1) : ~ PatternMatches(type, text[j])] >>
    ELSE << >>

\* text.match(config.pattern) with the g flag: every match, left to right
\* (the empty sequence stands for null).
RECURSIVE TextMatch(_, _)
TextMatch(text, type) ==
  IF text = << >> THEN << >>
  ELSE (IF PatternMatches(type, Head(text)) THEN << Head(text) >> ELSE << >>)
       \o TextMatch(Tail(text), type)

\* maskValue(value, type) on the stretch of a word that the pattern of type
\* matches: the last four digits of an ssn or phone number, the first letter
\* and the domain of an email address, and by default the first and last four
\* characters of a value longer than ten.
maskValue(word, type) ==
  CASE word = "ssn" /\ type = "ssn"            -> "***-**-6789"
    [] word = "ssn2" /\ type = "ssn"           -> "***-**-4321"
    [] word = "phone" /\ type = "phone"        -> "(***) ***-4567"
    [] word = "keymail" /\ type = "email"      -> "a***@corp.com"
    [] word = "keymail" /\ type = "api_key"    -> "api_...1234"
    [] word = "name" /\ type = "person_name"   -> "Dr. ...mith"
    [] OTHER                                   -> "****"

\* matches.forEach(match => risks.push({risk_type, risk_level, ..., masked_value}))
RECURSIVE PushMatches(_, _)
PushMatches(matches, type) ==
  IF matches = << >> THEN << >>
  ELSE << [risk_type |-> type, risk_level |-> PatternLevel(type),
           masked_value |-> maskValue(Head(matches), type)] >>
       \o PushMatches(Tail(matches), type)

\* The for-of loop of scanPrompt from registry position i on.
RECURSIVE ScanFrom(_, _)
ScanFrom(text, i) ==
  IF i > Len(RISK_PATTERNS) THEN << >>
  ELSE PushMatches(TextMatch(text, RISK_PATTERNS[i]), RISK_PATTERNS[i])
       \o ScanFrom(text, i + 1)

scanPrompt(text) == ScanFrom(text, 1)

\* risks.some(r => r.risk_level === level)
SomeLevel(risks, level) ==
  \E i \in 1..Len(risks) : risks[i].risk_level = level

\* Mutant of getOverallRiskLevel: the level of the first finding.
getOverallRiskLevelFirst(risks) ==
  IF Len(risks) = 0 THEN "none" ELSE risks[1].risk_level

getOverallRiskLevel(risks) ==
  IF Len(risks) = 0 THEN "none"
  ELSE IF SomeLevel(risks, "critical") THEN "critical"
  ELSE IF SomeLevel(risks, "high") THEN "high"
  ELSE IF SomeLevel(risks, "medium") THEN "medium"
  ELSE "low"

\* ------------------------------------------------------------------ state
\* The connections on which capture requests arrive; a connection carries one
\* request at a time, so two requests can be in progress at once.
Conns == {"k1", "k2"}

VARIABLES
  now,         \* the store's clock, NOW(), at the resolution of one day
  users,       \* table users
  prompts,     \* table prompts
  risk_flags,  \* table risk_flags
  served,      \* number of capture requests received so far
  pc,          \* per connection: the await its handler is suspended at
  rid,         \* per connection: the number of the request it carries
  req,         \* per connection: req.body
  userId,      \* per connection: let userId
  k,           \* per connection: position of the for-of loop over risks
  resp,        \* per connection: the response sent
  err,         \* per connection: the error caught by catch (err)
  received,    \* per connection: the time the request logger printed
  dash,        \* the dashboard response the last step sent, if it sent one
  engine       \* a call of the risk engine on its own: text, findings, level

capture == << served, pc, rid, req, userId, k, resp, err, received >>
vars ==
  << now, users, prompts, risk_flags, served, pc, rid, req, userId, k, resp,
     err, received, dash, engine >>

\* ------------------------------------------------------------ request body
Fields == {"org_id", "user_email", "ai_tool", "prompt_text"}

\* The prompt texts the captures of the model send.
CaptureTexts == { << "w" >>, << "ssn", "ssn", "name" >> }

\* The (organization, email) pairs the captures of the model are sent for.
Subjects == { << "org1", "a@corp" >>, << "org1", "b@corp" >>, << "org2", "a@corp" >> }

\* A body is the set of keys it carries and their values; a key it does not
\* carry reads as undefined (its value here is then unused).
Body(present, org, email, tool, text) ==
  [present |-> present, org_id |-> org, user_email |-> email,
   ai_tool |-> tool, prompt_text |-> text]

ValidBodies ==
  { Body(Fields, s[1], s[2], t, x) : s \in Subjects, t \in Tools, x \in CaptureTexts }

\* Bodies lacking some of the four keys, and a body whose prompt_text is "".
DefectiveBodies ==
  { Body(p, "org1", "a@corp", "chatgpt", << "ssn", "ssn", "name" >>) : p \in (SUBSET Fields) \ {Fields} }
  \cup { Body(Fields, "org1", "a@corp", "chatgpt", << >>) }

Bodies == ValidBodies \cup DefectiveBodies

NoBody == Body({}, "", "", "", << >>)

\* !x for a destructured body field: undefined and "" are falsy.
Falsy(body, f) ==
  \/ f \notin body.present
  \/ f = "org_id" /\ body.org_id = ""
  \/ f = "user_email" /\ body.user_email = ""
  \/ f = "ai_tool" /\ body.ai_tool = ""
  \/ f = "prompt_text" /\ Len(body.prompt_text) = 0

\* Mutant of MissingRequired: the test forgets ai_tool.
MissingRequiredNoTool(body) ==
  \/ Falsy(body, "org_id")
  \/ Falsy(body, "user_email")
  \/ Falsy(body, "prompt_text")

\* if (!org_id || !user_email || !ai_tool || !prompt_text)
MissingRequired(body) ==
  \/ Falsy(body, "org_id")
  \/ Falsy(body, "user_email")
  \/ Falsy(body, "ai_tool")
  \/ Falsy(body, "prompt_text")

\* --------------------------------------------------------------- responses
NoResp == [status |-> 0, error |-> "", risks_detected |-> 0, overall_risk |-> ""]

\* res.status(400).json({ error: 'Missing required fields' })
Resp400 ==
  [status |-> 400, error |-> "Missing required fields",
   risks_detected |-> 0, overall_risk |-> ""]

\* res.status(500).json({ error: 'Failed to capture prompt' })
Resp500 ==
  [status |-> 500, error |-> "Failed to capture prompt",
   risks_detected |-> 0, overall_risk |-> ""]

\* res.status(201).json({ prompt_id, risks_detected, overall_risk })
Resp201(risks) ==
  [status |-> 201, error |-> "",
   risks_detected |-> Len(risks), overall_risk |-> getOverallRiskLevel(risks)]

\* ------------------------------------------------------------------- store
\* Mutant of users_unique: the table has no UNIQUE(org_id, email).
users_unique_missing(org, email) == TRUE

\* users: UNIQUE(org_id, email)
users_unique(org, email) ==
  ~ \E u \in users : u.org_id = org /\ u.email = email

\* risk_flags.prompt_id REFERENCES prompts(id)
risk_flags_prompt_fk(pid) ==
  \E p \in prompts : p.id = pid

\* SELECT id FROM users WHERE org_id = $1 AND email = $2
SelectUserRows(org, email) ==
  { u \in users : u.org_id = org /\ u.email = email }

\* --------------------------------------------------------------- dashboard
\* req.query.days: absent, or the number its text denotes.
DayParams == { [given |-> FALSE, value |-> 0], [given |-> TRUE, value |-> 1] }

\* const { days = 30 } = req.query; ... parseInt(days)
PeriodDays(q) == IF q.given THEN q.value ELSE DefaultDays

EmptyMap == [x \in {} |-> 0]

\* A dashboard exchange: the caller's organization (orgId), for the flagged
\* listing the level asked for, the fields of the JSON response (with, for
\* summary and trend, the parsed days), and the response's status.
NoDash ==
  [kind |-> "none", status |-> 0, orgId |-> "", total_prompts |-> 0,
   risk_breakdown |-> EmptyMap, by_tool |-> EmptyMap, active_users |-> 0,
   period_days |-> 0, trend |-> << >>,
   users |-> << >>,
   level |-> "", limit |-> 0, offset |-> 0, risks |-> {}]

\* The right side of a LEFT JOIN row that found no risk_flags row: all NULL.
NullFlag ==
  [id |-> << 0, 0 >>, prompt_id |-> 0, risk_type |-> "NULL", risk_level |-> "NULL"]

\* DATE(captured_at): the day of a timestamp (timestamps are whole days here).
DATE(ts) == ts

\* Mutant of WindowPrompts: the WHERE clause lacks org_id = $1.
WindowPromptsAnyOrg(org, days) ==
  { p \in prompts : p.captured_at > now - days }

\* FROM prompts ... WHERE org_id = $1 AND captured_at > NOW() - INTERVAL 'n days'
WindowPrompts(org, days) ==
  { p \in prompts : p.org_id = org /\ p.captured_at > now - days }

\* FROM prompts p LEFT JOIN risk_flags rf ON p.id = rf.prompt_id WHERE ...
LeftJoinFlags(org, days) ==
  UNION { IF \E f \in risk_flags : f.prompt_id = p.id
            THEN { [p |-> p, rf |-> f] : f \in { g \in risk_flags : g.prompt_id = p.id } }
            ELSE { [p |-> p, rf |-> NullFlag] }
          : p \in WindowPrompts(org, days) }

\* Mutant of CountDistinctPrompts: COUNT(p.id), without DISTINCT.
CountJoinRows(group) == Cardinality(group)

\* COUNT(DISTINCT p.id) over the rows of one group
CountDistinctPrompts(group) == Cardinality({ r.p.id : r \in group })

\* COUNT(*) over the rows of one group
CountRows(group) == Cardinality(group)

\* SELECT COUNT(*) as total FROM prompts WHERE ...
TotalQuery(org, days) == Cardinality(WindowPrompts(org, days))

\* SELECT rf.risk_level, COUNT(DISTINCT p.id) as count ... GROUP BY rf.risk_level
RiskQuery(org, days) ==
  LET J == LeftJoinFlags(org, days) IN
    { [risk_level |-> l,
       count |-> CountDistinctPrompts({ r \in J : r.rf.risk_level = l })]
      : l \in { r.rf.risk_level : r \in J } }

\* r.risk_level || 'none'
LevelKey(l) == IF l = "NULL" THEN "none" ELSE l

\* riskResult.rows.reduce((acc, r) => { acc[r.risk_level || 'none'] = parseInt(r.count); ... }, {})
RiskBreakdown(rows) ==
  [key \in { LevelKey(r.risk_level) : r \in rows } |->
     (CHOOSE r \in rows : LevelKey(r.risk_level) = key).count]

\* SELECT ai_tool, COUNT(*) as count FROM prompts WHERE ... GROUP BY ai_tool
\* and the reduce that turns the rows into by_tool
ByTool(org, days) ==
  LET W == WindowPrompts(org, days) IN
    [t \in { p.ai_tool : p \in W } |-> Cardinality({ p \in W : p.ai_tool = t })]

\* SELECT COUNT(DISTINCT user_id) as active_users FROM prompts WHERE ...
ActiveUsersQuery(org, days) ==
  Cardinality({ p.user_id : p \in WindowPrompts(org, days) })

\* ORDER BY date
RECURSIVE OrderByDate(_)
OrderByDate(rows) ==
  IF rows = {} THEN << >>
  ELSE LET first == CHOOSE r \in rows : \A q \in rows : r.date <= q.date IN
         << first >> \o OrderByDate(rows \ {first})

\* SELECT DATE(captured_at) as date, COUNT(*) as prompts,
\*        COUNT(DISTINCT CASE WHEN rf.risk_level IN ('critical', 'high') THEN p.id END) as high_risk
\* FROM prompts p LEFT JOIN risk_flags rf ... GROUP BY DATE(captured_at) ORDER BY date
TrendQuery(org, days) ==
  LET J == LeftJoinFlags(org, days) IN
    OrderByDate(
      { [date |-> d,
         prompts |-> CountRows({ r \in J : DATE(r.p.captured_at) = d }),
         high_risk |-> CountDistinctPrompts(
                         { r \in J : /\ DATE(r.p.captured_at) = d
                                     /\ r.rf.risk_level \in {"critical", "high"} })]
        : d \in { DATE(r.p.captured_at) : r \in J } })

\* The prompts side of a LEFT JOIN row for a user without prompts: all NULL.
NullPrompt ==
  [id |-> 0, user_id |-> 0, org_id |-> "NULL", ai_tool |-> "NULL",
   prompt_text |-> << >>, captured_at |-> 0]

\* FROM users u LEFT JOIN prompts p ON u.id = p.user_id
\*              LEFT JOIN risk_flags rf ON p.id = rf.prompt_id
\* restricted to the rows of one user (one group of GROUP BY u.id)
UserJoin(u) ==
  IF \E p \in prompts : p.user_id = u.id
    THEN UNION { IF \E f \in risk_flags : f.prompt_id = p.id
                   THEN { [p |-> p, rf |-> f] : f \in { g \in risk_flags : g.prompt_id = p.id } }
                   ELSE { [p |-> p, rf |-> NullFlag] }
                 : p \in { x \in prompts : x.user_id = u.id } }
    ELSE { [p |-> NullPrompt, rf |-> NullFlag] }

\* COUNT(p.id) over the rows of one group: the rows whose p.id is not NULL
CountPromptId(group) == Cardinality({ r \in group : r.p # NullPrompt })

\* SELECT u.id, u.email, ..., u.last_active, COUNT(p.id) as total_prompts,
\*        COUNT(DISTINCT CASE WHEN rf.risk_level IN ('critical', 'high') THEN p.id END) as high_risk_count
\* FROM users u LEFT JOIN ... WHERE u.org_id = $1 GROUP BY u.id
UsersQuery(org) ==
  { [id |-> u.id, email |-> u.email, last_active |-> u.last_active,
     total_prompts |-> CountPromptId(UserJoin(u)),
     high_risk_count |-> CountDistinctPrompts(
                           { r \in UserJoin(u) : r.rf.risk_level \in {"critical", "high"} })]
    : u \in { x \in users : x.org_id = org } }

\* ORDER BY total_prompts DESC: every order of the rows the store may return
\* (rows with equal totals come in any order).
OrderByTotalDesc(rows) ==
  IF rows = {} THEN { << >> }
  ELSE { s \in [1..Cardinality(rows) -> rows] :
           /\ \A i, j \in DOMAIN s : s[i] = s[j] => i = j
           /\ \A i, j \in DOMAIN s : i < j => s[i].total_prompts >= s[j].total_prompts }

\* req.query of GET /api/dashboard/risks: level ("" when absent), limit and
\* offset (absent, or the number their text denotes).
RiskParams ==
  { [level |-> "", limit |-> [given |-> FALSE, value |-> 0],
     offset |-> [given |-> FALSE, value |-> 0]],
    [level |-> "critical", limit |-> [given |-> TRUE, value |-> 1],
     offset |-> [given |-> TRUE, value |-> 1]] }

\* const { limit = 50 } = req.query; ... parseInt(limit)
PageLimit(r) == IF r.limit.given THEN r.limit.value ELSE DefaultLimit

\* const { offset = 0 } = req.query; ... parseInt(offset)
PageOffset(r) == IF r.offset.given THEN r.offset.value ELSE DefaultOffset

\* SELECT p.id, ..., p.captured_at, u.email as user_email, rf.risk_type, rf.risk_level, ...
\* FROM prompts p JOIN users u ON p.user_id = u.id JOIN risk_flags rf ON p.id = rf.prompt_id
\* WHERE p.org_id = $1 [AND rf.risk_level = $2]
\* (flag keeps apart the rows that come from different risk_flags rows)
RisksQuery(org, level) ==
  { [id |-> p.id, ai_tool |-> p.ai_tool, captured_at |-> p.captured_at,
     user_email |-> u.email, risk_type |-> f.risk_type,
     risk_level |-> f.risk_level, flag |-> f.id]
    : << p, u, f >> \in
        { t \in prompts \X users \X risk_flags :
            /\ t[1].user_id = t[2].id
            /\ t[1].id = t[3].prompt_id
            /\ t[1].org_id = org
            /\ level # "" => t[3].risk_level = level } }

Min(a, b) == IF a < b THEN a ELSE b

\* The first n rows under ORDER BY p.captured_at DESC, as the sets of rows
\* the store may return (rows of equal captured_at come in any order).
FirstRows(rows, n) ==
  { T \in SUBSET rows :
      /\ Cardinality(T) = Min(n, Cardinality(rows))
      /\ \A a \in T, b \in rows \ T : a.captured_at >= b.captured_at }

\* ORDER BY p.captured_at DESC LIMIT $n OFFSET $m: the pages the store may
\* return, each as the set of its rows.
RisksPage(rows, limit, offset) ==
  UNION { FirstRows(rows \ K, limit) : K \in FirstRows(rows, offset) }

\* res.status(500).json({ error: 'Failed to fetch summary' }) and its like
Dash500(kind) ==
  [NoDash EXCEPT !.kind = kind, !.status = 500]

\* No call of the risk engine on its own.
NoEngine ==
  [phase |-> "none", text |-> << >>, risks |-> << >>, given |-> << >>,
   overall |-> ""]

Init ==
  /\ now = 0
  /\ users = {}
  /\ prompts = {}
  /\ risk_flags = {}
  /\ served = 0
  /\ pc = [c \in Conns |-> "idle"]
  /\ rid = [c \in Conns |-> 0]
  /\ req = [c \in Conns |-> NoBody]
  /\ userId = [c \in Conns |-> 0]
  /\ k = [c \in Conns |-> 0]
  /\ resp = [c \in Conns |-> NoResp]
  /\ err = [c \in Conns |-> "none"]
  /\ received = [c \in Conns |-> 0]
  /\ dash = NoDash
  /\ engine = NoEngine

\* ------------------------------------------------------- capture pipeline
\* The handler returns: its locals (the destructured body, userId, the loop
\* position) go out of scope.
Return(c) ==
  /\ pc' = [pc EXCEPT ![c] = "done"]
  /\ req' = [req EXCEPT ![c] = NoBody]
  /\ userId' = [userId EXCEPT ![c] = 0]
  /\ k' = [k EXCEPT ![c] = 0]

\* catch (err) { res.status(500).json(...) }
Catch(c, e) ==
  /\ Return(c)
  /\ resp' = [resp EXCEPT ![c] = Resp500]
  /\ err' = [err EXCEPT ![c] = e]

\* res.status(201).json(...) at the end of the try block
Respond201(c) ==
  /\ Return(c)
  /\ resp' = [resp EXCEPT ![c] = Resp201(scanPrompt(req[c].prompt_text))]
  /\ err' = [err EXCEPT ![c] = "none"]

\* A connection is free before its first request and after each response.
Free(c) == pc[c] \in {"idle", "done"}

\* A request arrives on a free connection (k2 is used while k1 is busy): the
\* logger prints the time, the handler validates the body and either answers
\* 400 or issues the SELECT on users.
CaptureRequest(c, body) ==
  /\ Free(c)
  /\ c = "k2" => ~ Free("k1")
  /\ served < MaxCaptures
  /\ served' = served + 1
  /\ rid' = [rid EXCEPT ![c] = served + 1]
  /\ received' = [received EXCEPT ![c] = now]
  /\ err' = [err EXCEPT ![c] = "none"]
  /\ IF MissingRequired(body)
       THEN /\ Return(c)
            /\ resp' = [resp EXCEPT ![c] = Resp400]
       ELSE /\ pc' = [pc EXCEPT ![c] = "select_user"]
            /\ req' = [req EXCEPT ![c] = body]
            /\ resp' = [resp EXCEPT ![c] = NoResp]
            /\ UNCHANGED << userId, k >>
  /\ UNCHANGED << now, users, prompts, risk_flags >>
  /\ dash' = NoDash
  /\ UNCHANGED engine

\* Mutant of StoreFails: a failed risk_flags INSERT is caught inside the loop
\* and dropped, and the loop goes on.
StoreFailsSwallowed(c, at) ==
  /\ pc[c] = at
  /\ IF at = "insert_flag"
       THEN IF k[c] = Len(scanPrompt(req[c].prompt_text))
              THEN Respond201(c)
              ELSE /\ k' = [k EXCEPT ![c] = k[c] + 1]
                   /\ UNCHANGED << pc, req, userId, resp, err >>
       ELSE Catch(c, "store_error")
  /\ UNCHANGED << now, users, prompts, risk_flags, served, rid, received >>
  /\ dash' = NoDash
  /\ UNCHANGED engine

\* A statement fails in the store (connection lost, timeout): pool.query
\* rejects and control passes to the catch block.
StoreFails(c, at) ==
  /\ pc[c] = at
  /\ Catch(c, "store_error")
  /\ UNCHANGED << now, users, prompts, risk_flags, served, rid, received >>
  /\ dash' = NoDash
  /\ UNCHANGED engine

\* The SELECT on users returns; the handler picks its branch.
SelectUser(c) ==
  /\ pc[c] = "select_user"
  /\ LET rows == SelectUserRows(req[c].org_id, req[c].user_email) IN
       IF rows = {}
         THEN /\ pc' = [pc EXCEPT ![c] = "insert_user"]
              /\ userId' = userId
         ELSE /\ pc' = [pc EXCEPT ![c] = "update_user"]
              /\ userId' = [userId EXCEPT ![c] = (CHOOSE u \in rows : TRUE).id]
  /\ UNCHANGED << now, users, prompts, risk_flags, served, rid, req, k, resp,
                  err, received >>
  /\ dash' = NoDash
  /\ UNCHANGED engine

\* INSERT INTO users (org_id, email, last_active) VALUES ($1, $2, NOW())
\* The new row's id is the number of the inserting request.
InsertUser(c) ==
  /\ pc[c] = "insert_user"
  /\ IF users_unique(req[c].org_id, req[c].user_email)
       THEN /\ users' = users \cup
                 { [id |-> rid[c], org_id |-> req[c].org_id,
                    email |-> req[c].user_email, last_active |-> now] }
            /\ userId' = [userId EXCEPT ![c] = rid[c]]
            /\ pc' = [pc EXCEPT ![c] = "insert_prompt"]
            /\ UNCHANGED << req, k, resp, err >>
       ELSE /\ Catch(c, "unique_violation")
            /\ users' = users
  /\ UNCHANGED << now, prompts, risk_flags, served, rid, received >>
  /\ dash' = NoDash
  /\ UNCHANGED engine

\* Mutant of UpdateLastActive: the else branch only reads the id.
UpdateLastActiveSkipped(c) ==
  /\ pc[c] = "update_user"
  /\ pc' = [pc EXCEPT ![c] = "insert_prompt"]
  /\ UNCHANGED << now, users, prompts, risk_flags, served, rid, req, userId, k,
                  resp, err, received >>
  /\ dash' = NoDash
  /\ UNCHANGED engine

\* UPDATE users SET last_active = NOW() WHERE id = $1
UpdateLastActive(c) ==
  /\ pc[c] = "update_user"
  /\ users' = { IF u.id = userId[c] THEN [u EXCEPT !.last_active = now] ELSE u
                : u \in users }
  /\ pc' = [pc EXCEPT ![c] = "insert_prompt"]
  /\ UNCHANGED << now, prompts, risk_flags, served, rid, req, userId, k, resp,
                  err, received >>
  /\ dash' = NoDash
  /\ UNCHANGED engine

\* INSERT INTO prompts (...) RETURNING id; then scanPrompt(prompt_text) and
\* either the first risk_flags INSERT is issued or, with no risk, the 201.
\* The new row's id is the number of the request.
InsertPrompt(c) ==
  /\ pc[c] = "insert_prompt"
  /\ prompts' = prompts \cup
       { [id |-> rid[c], user_id |-> userId[c], org_id |-> req[c].org_id,
          ai_tool |-> req[c].ai_tool, prompt_text |-> req[c].prompt_text,
          captured_at |-> now] }
  /\ IF Len(scanPrompt(req[c].prompt_text)) = 0
       THEN Respond201(c)
       ELSE /\ pc' = [pc EXCEPT ![c] = "insert_flag"]
            /\ k' = [k EXCEPT ![c] = 1]
            /\ UNCHANGED << req, userId, resp, err >>
  /\ UNCHANGED << now, users, risk_flags, served, rid, received >>
  /\ dash' = NoDash
  /\ UNCHANGED engine

\* Mutant of InsertRiskFlag: the first risk_flags INSERT is issued before the
\* prompts INSERT, into a table without the foreign key.
InsertRiskFlagEarly(c) ==
  /\ pc[c] = "insert_prompt"
  /\ Len(scanPrompt(req[c].prompt_text)) > 0
  /\ risk_flags' = risk_flags \cup
       { [id |-> << rid[c], 1 >>, prompt_id |-> rid[c],
          risk_type |-> scanPrompt(req[c].prompt_text)[1].risk_type,
          risk_level |-> scanPrompt(req[c].prompt_text)[1].risk_level] }
  /\ UNCHANGED << now, users, prompts, served, pc, rid, req, userId, k, resp,
                  err, received >>
  /\ dash' = NoDash
  /\ UNCHANGED engine

\* One round of the for-of loop: INSERT INTO risk_flags (prompt_id, ...) for
\* risks[k]; after the last one the 201 is sent.
InsertRiskFlag(c) ==
  /\ pc[c] = "insert_flag"
  /\ LET risks == scanPrompt(req[c].prompt_text) IN
       IF risk_flags_prompt_fk(rid[c])
         THEN /\ risk_flags' = risk_flags \cup
                   { [id |-> << rid[c], k[c] >>, prompt_id |-> rid[c],
                      risk_type |-> risks[k[c]].risk_type,
                      risk_level |-> risks[k[c]].risk_level] }
              /\ IF k[c] = Len(risks)
                   THEN Respond201(c)
                   ELSE /\ k' = [k EXCEPT ![c] = k[c] + 1]
                        /\ UNCHANGED << pc, req, userId, resp, err >>
         ELSE /\ Catch(c, "foreign_key_violation")
              /\ risk_flags' = risk_flags
  /\ UNCHANGED << now, users, prompts, served, rid, received >>
  /\ dash' = NoDash
  /\ UNCHANGED engine

\* Time passes.
Tick ==
  /\ now < MaxDay
  /\ now' = now + 1
  /\ UNCHANGED << users, prompts, risk_flags, served, pc, rid, req, userId, k,
                  resp, err, received >>
  /\ dash' = NoDash
  /\ UNCHANGED engine

\* ------------------------------------------------------ dashboard handlers
\* A dashboard handler only reads: its SELECTs are run here back to back, on
\* one state of the store, and its response is sent in the same step.  One
\* exchange is followed at a time: a request is taken up once the response
\* before it is gone (any step of a capture, or of the clock, drops it).

\* GET /api/dashboard/summary for the organization of the caller's token.
Summary(org, q) ==
  /\ dash = NoDash
  /\ dash' = [NoDash EXCEPT
                !.kind = "summary", !.status = 200, !.orgId = org,
                !.total_prompts = TotalQuery(org, PeriodDays(q)),
                !.risk_breakdown = RiskBreakdown(RiskQuery(org, PeriodDays(q))),
                !.by_tool = ByTool(org, PeriodDays(q)),
                !.active_users = ActiveUsersQuery(org, PeriodDays(q)),
                !.period_days = PeriodDays(q)]
  /\ UNCHANGED << now, users, prompts, risk_flags, capture, engine >>

\* GET /api/dashboard/trend for the organization of the caller's token.
Trend(org, q) ==
  /\ dash = NoDash
  /\ dash' = [NoDash EXCEPT
                !.kind = "trend", !.status = 200, !.orgId = org,
                !.period_days = PeriodDays(q),
                !.trend = TrendQuery(org, PeriodDays(q))]
  /\ UNCHANGED << now, users, prompts, risk_flags, capture, engine >>

\* GET /api/dashboard/users for the organization of the caller's token; the
\* handler reads nothing of req.query.
Users(org) ==
  /\ dash = NoDash
  /\ \E rows \in OrderByTotalDesc(UsersQuery(org)) :
       dash' = [NoDash EXCEPT
                  !.kind = "users", !.status = 200, !.orgId = org,
                  !.users = rows]
  /\ UNCHANGED << now, users, prompts, risk_flags, capture, engine >>

\* GET /api/dashboard/risks for the organization of the caller's token; of
\* req.query the handler reads level, limit and offset and nothing else.
Risks(org, r) ==
  /\ dash = NoDash
  /\ \E page \in RisksPage(RisksQuery(org, r.level), PageLimit(r), PageOffset(r)) :
       dash' = [NoDash EXCEPT
                  !.kind = "risks", !.status = 200, !.orgId = org,
                  !.level = r.level, !.risks = page,
                  !.limit = PageLimit(r), !.offset = PageOffset(r)]
  /\ UNCHANGED << now, users, prompts, risk_flags, capture, engine >>

\* A query of a dashboard handler fails in the store: the catch block answers.
DashFails(kind) ==
  /\ dash = NoDash
  /\ dash' = Dash500(kind)
  /\ UNCHANGED << now, users, prompts, risk_flags, capture, engine >>

CaptureSteps ==
  {"select_user", "insert_user", "update_user", "insert_prompt", "insert_flag"}

CaptureNext ==
  \/ \E c \in Conns, body \in Bodies : CaptureRequest(c, body)
  \/ \E c \in Conns : SelectUser(c)
  \/ \E c \in Conns : InsertUser(c)
  \/ \E c \in Conns : UpdateLastActive(c)
  \/ \E c \in Conns : InsertPrompt(c)
  \/ \E c \in Conns : InsertRiskFlag(c)
  \/ \E c \in Conns, at \in CaptureSteps : StoreFails(c, at)
  \/ Tick

DashNext ==
  \/ \E org \in Orgs, q \in DayParams : Summary(org, q)
  \/ \E org \in Orgs, q \in DayParams : Trend(org, q)
  \/ \E org \in Orgs : Users(org)
  \/ \E org \in Orgs, r \in RiskParams : Risks(org, r)
  \/ \E kind \in {"summary", "trend", "risks", "users"} : DashFails(kind)

Next == CaptureNext \/ DashNext

\* The capture pipeline and the store alone.
Spec == Init /\ [][CaptureNext]_vars

\* The capture pipeline, the store and the dashboard reads.
SpecDash == Init /\ [][Next]_vars

\* ------------------------------------------------- the risk engine alone
\* scanPrompt and getOverallRiskLevel are exported by the module: here they
\* are called on their own, on any text of at most MaxLen words, and
\* getOverallRiskLevel on the scan's findings in any order.

\* The texts scanPrompt is called with.
EngineTexts == UNION { [1..n -> Words] : n \in 0..MaxLen }

InitEngine ==
  /\ now = 0
  /\ users = {}
  /\ prompts = {}
  /\ risk_flags = {}
  /\ served = 0
  /\ pc = [c \in Conns |-> "idle"]
  /\ rid = [c \in Conns |-> 0]
  /\ req = [c \in Conns |-> NoBody]
  /\ userId = [c \in Conns |-> 0]
  /\ k = [c \in Conns |-> 0]
  /\ resp = [c \in Conns |-> NoResp]
  /\ err = [c \in Conns |-> "none"]
  /\ received = [c \in Conns |-> 0]
  /\ dash = NoDash
  /\ engine \in { [NoEngine EXCEPT !.phase = "text", !.text = t] : t \in EngineTexts }

\* const risks = scanPrompt(text)
EngineScan ==
  /\ engine.phase = "text"
  /\ engine' = [engine EXCEPT !.phase = "scanned",
                               !.risks = scanPrompt(engine.text),
                               !.given = scanPrompt(engine.text)]
  /\ UNCHANGED << now, users, prompts, risk_flags, capture, dash >>

\* The caller hands the findings over in another order: two neighbours of the
\* list change places.
EngineReorder(i) ==
  /\ engine.phase = "scanned"
  /\ i \in 1..(Len(engine.given) - 1)
  /\ engine.given[i] # engine.given[i + 1]
  /\ engine' = [engine EXCEPT !.given[i] = engine.given[i + 1],
                               !.given[i + 1] = engine.given[i]]
  /\ UNCHANGED << now, users, prompts, risk_flags, capture, dash >>

\* getOverallRiskLevel(risks)
EngineRate ==
  /\ engine.phase = "scanned"
  /\ engine' = [engine EXCEPT !.phase = "rated",
                               !.overall = getOverallRiskLevel(engine.given)]
  /\ UNCHANGED << now, users, prompts, risk_flags, capture, dash >>

EngineNext ==
  \/ EngineScan
  \/ \E i \in 1..(2 * MaxLen) : EngineReorder(i)
  \/ EngineRate

\* The risk engine called on its own.
SpecEngine == InitEngine /\ [][EngineNext]_vars

\* ------------------------------------------------------------------ claims
Levels == {"critical", "high", "medium", "low"}

\* The risk_flags rows of one prompt.
FlagsOf(pid) == { f \in risk_flags : f.prompt_id = pid }

\* The findings the scan of a persisted prompt produces.
ScanOf(p) == scanPrompt(p.prompt_text)

\* A count read from a breakdown object: a key it lacks reports nothing.
HasCount(map, key, n) ==
  IF key \in DOMAIN map THEN map[key] = n ELSE n = 0

\* C1: a capture whose Subject INSERT raised the create-conflict (two first
\* captures of one (organization, email) racing) is still acknowledged: the
\* conflict is never answered with a failure.
C1_ConflictRecovered ==
  \A c \in Conns :
    (pc[c] = "done" /\ err[c] = "unique_violation") => resp[c].status # 500

\* C2: in every reachable state there is at most one users row for each
\* (organization, email) pair.
C2_SubjectUnique ==
  \A u1 \in users, u2 \in users :
    (u1.org_id = u2.org_id /\ u1.email = u2.email) => u1 = u2

\* Two first captures of one pair raced, one INSERT was refused, one row stands.
C2_Witness ==
  /\ \E c \in Conns : err[c] = "unique_violation"
  /\ Cardinality(users) = 1

\* C3: a capture that has ended with its Prompt persisted and fewer Findings
\* persisted than its scan produced (a risk_flags INSERT failed) has answered
\* with the failure response, never with the acknowledgment.
C3_FindingFailureSurfaces ==
  \A c \in Conns :
    ( /\ pc[c] = "done"
      /\ \E p \in prompts : /\ p.id = rid[c]
                            /\ Cardinality(FlagsOf(p.id)) < Len(ScanOf(p)) )
    => resp[c].status = 500

\* A risk_flags INSERT failed after one Finding of the prompt was persisted.
C3_Witness ==
  \E c \in Conns :
    /\ pc[c] = "done"
    /\ err[c] = "store_error"
    /\ resp[c].status = 500
    /\ \E p \in prompts : /\ p.id = rid[c]
                          /\ Cardinality(FlagsOf(p.id)) = 1
                          /\ Len(ScanOf(p)) = 3

\* C4: a capture answered with the failure response has left nothing in the
\* store: no users row, prompts row or risk_flags row written by it.
C4_NoPartialState ==
  \A c \in Conns :
    resp[c].status = 500 =>
      /\ ~ \E u \in users : u.id = rid[c]
      /\ ~ \E p \in prompts : p.id = rid[c]
      /\ FlagsOf(rid[c]) = {}

\* C5: the severity breakdown a Summary reports is the one of the complete
\* scan results of the prompts it covers: no prompt is seen with none or only
\* some of the Findings its scan produced.
C5_FindingsAtomicWithPrompt ==
  (dash.kind = "summary" /\ dash.status = 200) =>
    LET W == WindowPrompts(dash.orgId, dash.period_days) IN
      /\ \A l \in Levels :
           HasCount(dash.risk_breakdown, l,
                    Cardinality({ p \in W : SomeLevel(ScanOf(p), l) }))
      /\ HasCount(dash.risk_breakdown, "none",
                  Cardinality({ p \in W : Len(ScanOf(p)) = 0 }))

\* A body lacks one of the four required keys.
AnyAbsent(body) == \E f \in Fields : f \notin body.present

\* C6: a capture request lacking any of org_id, user_email, ai_tool or
\* prompt_text is answered 400 at once, and that step leaves users (with every
\* last_active), prompts and risk_flags as they were.
C6_MissingFieldNoEffect ==
  [][ \A c \in Conns, body \in Bodies :
        (CaptureRequest(c, body) /\ AnyAbsent(body)) =>
          /\ pc'[c] = "done"
          /\ resp'[c].status = 400
          /\ users' = users
          /\ prompts' = prompts
          /\ risk_flags' = risk_flags ]_vars

\* A request was answered 400 while the store already held rows.
C6_Witness ==
  /\ \E c \in Conns : pc[c] = "done" /\ resp[c].status = 400
  /\ prompts # {}

\* C7: every persisted risk_flags row references a prompts row that is
\* persisted.
C7_FindingAfterPrompt ==
  \A f \in risk_flags : \E p \in prompts : p.id = f.prompt_id

\* A Finding is persisted while its capture is still in the loop.
C7_Witness ==
  \E c \in Conns : pc[c] = "insert_flag" /\ FlagsOf(rid[c]) # {}

\* C8: a capture answered with the acknowledgment has its Subject's
\* last_active set no earlier than the moment the request was received.
C8_LastActiveRefreshed ==
  \A c \in Conns :
    resp[c].status = 201 =>
      \E p \in prompts, u \in users :
        /\ p.id = rid[c]
        /\ u.id = p.user_id
        /\ u.last_active >= received[c]

\* An acknowledged capture of a Subject that another, earlier-day capture created.
C8_Witness ==
  \E c \in Conns :
    /\ resp[c].status = 201
    /\ received[c] > 0
    /\ \E p \in prompts : p.id = rid[c] /\ p.user_id # rid[c]

\* C9: the severity breakdown of a Summary reports, for each severity level
\* on its own, the number of distinct prompts of the organization in the
\* window that have at least one Finding of that level (a level no prompt has
\* is left out of the object).
C9_BreakdownPerLevel ==
  (dash.kind = "summary" /\ dash.status = 200) =>
    \A l \in Levels :
      HasCount(dash.risk_breakdown, l,
               Cardinality({ p \in WindowPrompts(dash.orgId, dash.period_days) :
                             \E f \in FlagsOf(p.id) : f.risk_level = l }))

\* A Summary over a prompt with two critical Findings and a low one, and a
\* second prompt outside its one-day window.
C9_Witness ==
  /\ dash.kind = "summary"
  /\ dash.status = 200
  /\ dash.period_days = 1
  /\ DOMAIN dash.risk_breakdown = {"critical", "low"}
  /\ dash.risk_breakdown["critical"] = 1
  /\ dash.risk_breakdown["low"] = 1
  /\ Cardinality({ f \in risk_flags : f.risk_level = "critical" }) = 4

\* C10: for every day on which the organization has prompts in the window,
\* Trend reports the number of prompts captured that day and the number of
\* those with at least one critical or high Finding.
C10_TrendPerDay ==
  (dash.kind = "trend" /\ dash.status = 200) =>
    LET W == WindowPrompts(dash.orgId, dash.period_days) IN
      \A d \in { DATE(p.captured_at) : p \in W } :
        \E i \in 1..Len(dash.trend) :
          /\ dash.trend[i].date = d
          /\ dash.trend[i].prompts =
               Cardinality({ p \in W : DATE(p.captured_at) = d })
          /\ dash.trend[i].high_risk =
               Cardinality({ p \in W :
                             /\ DATE(p.captured_at) = d
                             /\ \E f \in FlagsOf(p.id) :
                                  f.risk_level \in {"critical", "high"} })

\* The prompts of one Subject.
PromptsOf(uid) == { p \in prompts : p.user_id = uid }

\* C11: Subject activity lists every Subject of the organization with its
\* number of prompts (each counted once) and the number of its prompts that
\* have at least one critical or high Finding, in descending order of the
\* number of prompts.
C11_SubjectActivity ==
  (dash.kind = "users" /\ dash.status = 200) =>
    /\ \A u \in { x \in users : x.org_id = dash.orgId } :
         \E i \in 1..Len(dash.users) :
           /\ dash.users[i].id = u.id
           /\ dash.users[i].total_prompts = Cardinality(PromptsOf(u.id))
           /\ dash.users[i].high_risk_count =
                Cardinality({ p \in PromptsOf(u.id) :
                              \E f \in FlagsOf(p.id) :
                                f.risk_level \in {"critical", "high"} })
    /\ \A i, j \in 1..Len(dash.users) :
         i < j => Cardinality(PromptsOf(dash.users[i].id))
                    >= Cardinality(PromptsOf(dash.users[j].id))

\* The prompts of an organization inside the lookback window a caller supplies
\* with days (30 days when the caller supplies none).
InWindow(org, q) ==
  { p \in prompts :
      /\ p.org_id = org
      /\ p.captured_at > now - (IF q.given THEN q.value ELSE 30) }

\* A prompt has a critical or high Finding.
HighRisk(p) == \E f \in FlagsOf(p.id) : f.risk_level \in {"critical", "high"}

\* The step leaves the three tables as they were.
StoreUnchanged ==
  /\ users' = users
  /\ prompts' = prompts
  /\ risk_flags' = risk_flags

\* The Summary response d is made of the prompts of W and of nothing else.
SummaryFrom(d, W) ==
  /\ d.total_prompts = Cardinality(W)
  /\ d.active_users = Cardinality({ p.user_id : p \in W })
  /\ DOMAIN d.by_tool = { p.ai_tool : p \in W }
  /\ \A t \in DOMAIN d.by_tool :
       d.by_tool[t] = Cardinality({ p \in W : p.ai_tool = t })
  /\ \A key \in DOMAIN d.risk_breakdown :
       IF key = "none"
         THEN \E p \in W : FlagsOf(p.id) = {}
         ELSE \E p \in W : \E f \in FlagsOf(p.id) : f.risk_level = key

\* The Trend response d is made of the prompts of W and of nothing else.
TrendFrom(d, W) ==
  \A i \in 1..Len(d.trend) :
    /\ \E p \in W : DATE(p.captured_at) = d.trend[i].date
    /\ d.trend[i].high_risk =
         Cardinality({ p \in W : DATE(p.captured_at) = d.trend[i].date /\ HighRisk(p) })

\* The flagged listing d is made of the prompts of W and of nothing else.
RisksFrom(d, W) ==
  \A row \in d.risks : \E p \in W : p.id = row.id

\* The Subject activity d is made of the prompts of W and of nothing else.
UsersFrom(d, W) ==
  \A i \in 1..Len(d.users) :
    /\ d.users[i].total_prompts > 0 => \E p \in W : p.user_id = d.users[i].id
    /\ d.users[i].high_risk_count =
         Cardinality({ p \in W : p.user_id = d.users[i].id /\ HighRisk(p) })

OfOrg(org) == { p \in prompts : p.org_id = org }

Rank(level) ==
  CASE level = "critical" -> 4
    [] level = "high"     -> 3
    [] level = "medium"   -> 2
    [] level = "low"      -> 1
    [] OTHER              -> 0

\* C13: the overall severity of a finding list is 'none' exactly when the
\* list is empty, is otherwise a severity some finding has and no finding
\* exceeds under critical > high > medium > low, and is the same for the list
\* in any other order.
C13_OverallIsHighest ==
  engine.phase = "rated" =>
    /\ (engine.overall = "none") <=> (Len(engine.given) = 0)
    /\ Len(engine.given) > 0 =>
         /\ \E i \in 1..Len(engine.given) :
              engine.given[i].risk_level = engine.overall
         /\ \A i \in 1..Len(engine.given) :
              Rank(engine.given[i].risk_level) <= Rank(engine.overall)
    /\ engine.overall = getOverallRiskLevel(engine.risks)

\* A rated list handed over as low, medium, critical: the reverse of the
\* order in which the scan found them.
C13_Witness ==
  /\ engine.phase = "rated"
  /\ engine.overall = "critical"
  /\ Len(engine.given) = 3
  /\ engine.given[1].risk_level = "low"
  /\ engine.given[2].risk_level = "medium"
  /\ engine.given[3].risk_level = "critical"

\* The matched occurrences of a text: a registry position and a place in the
\* text whose word the pattern at that position matches.
Occurrences(text) ==
  { o \in (1..Len(RISK_PATTERNS)) \X (1..Len(text)) :
      PatternMatches(RISK_PATTERNS[o[1]], text[o[2]]) }

\* Registry order first, then left to right in the text.
Before(a, b) == a[1] < b[1] \/ (a[1] = b[1] /\ a[2] < b[2])

\* C14: scanPrompt returns exactly one finding per matched occurrence, over
\* all categories (a stretch matched by two categories gives two findings),
\* ordered by category in registry order and, within a category, from left to
\* right; a text without a match gives the empty sequence.
C14_ScanOrder ==
  engine.phase \in {"scanned", "rated"} =>
    LET Occ == Occurrences(engine.text) IN
      /\ Len(engine.risks) = Cardinality(Occ)
      /\ \A o \in Occ :
           LET j == Cardinality({ x \in Occ : Before(x, o) }) + 1 IN
             /\ engine.risks[j].risk_type = RISK_PATTERNS[o[1]]
             /\ engine.risks[j].risk_level = PatternLevel(RISK_PATTERNS[o[1]])
             /\ engine.risks[j].masked_value =
                  maskValue(engine.text[o[2]], RISK_PATTERNS[o[1]])

\* A scanned text with a key-and-email stretch before two different SSNs.
C14_Witness ==
  /\ engine.phase = "scanned"
  /\ engine.text = << "keymail", "ssn2", "ssn" >>
  /\ Len(engine.risks) = 4
  /\ engine.risks[1].masked_value = "***-**-4321"
  /\ engine.risks[4].risk_type = "api_key"

====
